---- MODULE Spec2Model ----
(***************************************************************************)
(* State-machine model of the YaMDb API (api_yamdb): the relational store  *)
(* declared in reviews/models.py and the request handlers of api/views.py  *)
(* with the validation rules of api/serializers.py.                        *)
(*                                                                         *)
(* Every handler is one atomic action.  The review create is also given in *)
(* two steps, split where the serializer's existence pre-check has been    *)
(* made and the row is not yet inserted, so that creates interleave.       *)
(*                                                                         *)
(* An optional value (a body field that may be missing, a nullable column, *)
(* a response value that may be null) is a sequence of length 0 or 1.      *)
(***************************************************************************)
EXTENDS Integers, FiniteSets, Sequences, Bags, TLC

VARIABLES
    users,          \* rows of User: [id, username, email, role]
    nextUserId,     \* the next primary key of User
    categories,     \* rows of Category, by their unique slug
    titles,         \* rows of Title: [id, category, year]
    nextTitleId,    \* the next primary key of Title
    reviews,        \* rows of Review: [id, title, author, score]
    nextReviewId,   \* the next primary key of Review
    comments,       \* rows of Comment: [id, review, author]
    nextCommentId,  \* the next primary key of Comment
    pending,        \* review creates that passed validation and have not saved yet
    mail,           \* the message the request just served handed to send_mail
    last            \* the request just served and its response: [op, status, rating]

vars == <<users, nextUserId, categories, titles, nextTitleId, reviews,
          nextReviewId, comments, nextCommentId, pending, mail, last>>

accountVars == <<users, nextUserId, mail>>
catalogVars == <<categories, titles, nextTitleId>>
reviewVars == <<reviews, nextReviewId, comments, nextCommentId, pending>>

----------------------------------------------------------------------------
(* Bounds of the model. *)

MaxUsers == 2        \* accounts ever registered, the administrator included
MaxTitles == 2       \* titles ever created
FewTitles == 1       \* the same, where the scores or the requests in flight vary
MaxReviews == 2      \* reviews ever inserted
MaxComments == 2     \* comments ever inserted
MaxPending == 2      \* review creates in flight at once

(* Optional values. *)
None == << >>
Some(x) == <<x>>
IsSome(o) == Len(o) = 1
Get(o) == o[1]
Opt(S) == {None} \cup {Some(x) : x \in S}
OrElse(o, d) == IF IsSome(o) THEN Get(o) ELSE d

(* The caller of a request without credentials. *)
Anonymous == 0

Usernames == {"alice", "bob", "me"}
Emails == {"a@x", "b@x"}
Roles == {"user", "moderator", "admin"}

(* Status codes; SERVER_ERROR is an exception no handler catches. *)
OK == "200"
CREATED == "201"
NO_CONTENT == "204"
BAD_REQUEST == "400"
UNAUTHORIZED == "401"
FORBIDDEN == "403"
NOT_FOUND == "404"
SERVER_ERROR == "500"
Success == {OK, CREATED, NO_CONTENT}

Response(op, status) == [op |-> op, status |-> status, rating |-> None]

----------------------------------------------------------------------------
(* Callers and permission classes.  api/permissions.py and users/models.py *)
(* are not part of the sources at hand; these follow the specification's   *)
(* permission table.                                                       *)

UserById(id) == CHOOSE u \in users : u.id = id
IsAuthenticated(caller) == \E u \in users : u.id = caller
Callers == {Anonymous} \cup (1 .. MaxUsers)

is_admin(caller) == IsAuthenticated(caller) /\ UserById(caller).role = "admin"
is_moderator(caller) == IsAuthenticated(caller) /\ UserById(caller).role = "moderator"

(* The status a request is refused with, by whether it carries credentials. *)
Denied(caller) == IF IsAuthenticated(caller) THEN FORBIDDEN ELSE UNAUTHORIZED

SAFE_METHODS == {"GET"}

IsAdminRole(caller) == is_admin(caller)
IsAdminOrReadOnly(caller, method) == method \in SAFE_METHODS \/ is_admin(caller)
IsAuthenticatedOrReadOnly(caller, method) ==
    method \in SAFE_METHODS \/ IsAuthenticated(caller)
IsAuthenticatedOrCreateOnly(caller, method) ==
    method = "POST" \/ IsAuthenticated(caller)

(* AuthorOrAdminOrModeratOrReadOnly: the request, then the object. *)
AuthorOrStaffRequest(caller, method) ==
    method \in SAFE_METHODS \/ IsAuthenticated(caller)
AuthorOrStaffObject(caller, method, row) ==
    \/ method \in SAFE_METHODS
    \/ row.author = caller
    \/ is_moderator(caller)
    \/ is_admin(caller)

----------------------------------------------------------------------------
(* Accounts: sign-up and the user resource. *)

UsernameTaken(name, except) ==
    \E u \in users : u.username = name /\ u.id \notin except

(* SignUpSerializer.validate_username / UserSerializer.validate_username,  *)
(* with the model's unique-username validator (the instance itself is      *)
(* excluded on update).                                                    *)
validate_username(name, except) ==
    name # "me" /\ ~UsernameTaken(name, except)

(* The row SignUpViewSet.create binds the serializer to: the account       *)
(* registered under exactly this (username, email), when there is one.     *)
SignUpInstanceUnbound(username, email) == {}
SignUpInstance(username, email) ==
    {u \in users : u.username = username /\ u.email = email}

SignUp(username, email) ==
    LET found == SignUpInstance(username, email)
        except == {u.id : u \in found}
    IN  /\ IF validate_username(username, except)
           THEN /\ IF found # {}
                   THEN /\ users' = {IF u \in found
                                     THEN [u EXCEPT !.username = username,
                                                    !.email = email]
                                     ELSE u : u \in users}
                        /\ UNCHANGED nextUserId
                   ELSE /\ nextUserId <= MaxUsers
                        /\ users' = users \cup {[id |-> nextUserId,
                                                 username |-> username,
                                                 email |-> email,
                                                 role |-> "user"]}
                        /\ nextUserId' = nextUserId + 1
                /\ mail' = Some(email)
                /\ last' = Response("signup", OK)
           ELSE /\ UNCHANGED <<users, nextUserId>>
                /\ mail' = None
                /\ last' = Response("signup", BAD_REQUEST)
        /\ UNCHANGED <<catalogVars, reviewVars>>

(* UserViewSet.create (POST /users), admin only. *)
UserCreate(caller, username, email, role) ==
    /\ IF ~IsAdminRole(caller)
       THEN /\ UNCHANGED <<users, nextUserId>>
            /\ last' = Response("user_create", Denied(caller))
       ELSE IF ~validate_username(username, {})
       THEN /\ UNCHANGED <<users, nextUserId>>
            /\ last' = Response("user_create", BAD_REQUEST)
       ELSE /\ nextUserId <= MaxUsers
            /\ users' = users \cup {[id |-> nextUserId, username |-> username,
                                      email |-> email, role |-> role]}
            /\ nextUserId' = nextUserId + 1
            /\ last' = Response("user_create", CREATED)
    /\ mail' = None
    /\ UNCHANGED <<catalogVars, reviewVars>>

(* The body of a PATCH on a user: every field may be missing. *)
UserPatchData == [username : Opt(Usernames), email : Opt(Emails), role : Opt(Roles)]

(* ModelSerializer.update: the validated fields are set on the instance. *)
UpdatedUser(u, validated) ==
    [id |-> u.id,
     username |-> OrElse(validated.username, u.username),
     email |-> OrElse(validated.email, u.email),
     role |-> OrElse(validated.role, u.role)]

(* UserViewSet.partial_update (PATCH /users/{username}), admin only. *)
UserPartialUpdate(caller, username, data) ==
    LET found == {u \in users : u.username = username}
    IN  /\ IF ~IsAdminRole(caller)
           THEN /\ UNCHANGED users
                /\ last' = Response("user_update", Denied(caller))
           ELSE IF found = {}
           THEN /\ UNCHANGED users
                /\ last' = Response("user_update", NOT_FOUND)
           ELSE LET u == CHOOSE x \in found : TRUE
                IN  IF IsSome(data.username)
                       /\ ~validate_username(Get(data.username), {u.id})
                    THEN /\ UNCHANGED users
                         /\ last' = Response("user_update", BAD_REQUEST)
                    ELSE /\ users' = (users \ {u}) \cup {UpdatedUser(u, data)}
                         /\ last' = Response("user_update", OK)
        /\ mail' = None
        /\ UNCHANGED <<nextUserId, catalogVars, reviewVars>>

(* The fields UserMeSerializer and UserSerializer keep of a request body:  *)
(* a read-only field is dropped from the validated data.                   *)
UserMeSerializer(data) == [data EXCEPT !.role = None]
UserSerializer(data) == data

(* The serializer UserViewSet.me picks for a PATCH. *)
MeSerializer(caller, data) ==
    IF is_admin(caller) THEN UserMeSerializer(data) ELSE UserSerializer(data)

(* serializer.save(role=request.user.role): a keyword of save() overrides  *)
(* the validated value of the same name.                                   *)
MeSave(caller, validated) ==
    [validated EXCEPT !.role = Some(UserById(caller).role)]

(* UserViewSet.me with PATCH (PATCH /users/me), any authenticated caller. *)
MePatch(caller, data) ==
    /\ IF ~IsAuthenticated(caller)
       THEN /\ UNCHANGED users
            /\ last' = Response("me_patch", UNAUTHORIZED)
       ELSE LET u == UserById(caller)
                validated == MeSerializer(caller, data)
            IN  IF IsSome(validated.username)
                   /\ ~validate_username(Get(validated.username), {u.id})
                THEN /\ UNCHANGED users
                     /\ last' = Response("me_patch", BAD_REQUEST)
                ELSE /\ users' = (users \ {u})
                                    \cup {UpdatedUser(u, MeSave(caller, validated))}
                     /\ last' = Response("me_patch", OK)
    /\ mail' = None
    /\ UNCHANGED <<nextUserId, catalogVars, reviewVars>>

----------------------------------------------------------------------------
(* Categories and titles. *)

Slugs == {"film", "book"}
ReviewIds == 1 .. MaxReviews
CommentIds == 1 .. MaxComments

(* dt.datetime.now().year *)
CurrentYear == 2026
Years == {0 - 1, CurrentYear, CurrentYear + 1}

TitleById(id) == CHOOSE t \in titles : t.id = id
ReviewById(id) == CHOOSE r \in reviews : r.id = id

(* CategoryViewSet create (POST /categories), admin only; the slug is      *)
(* unique.                                                                 *)
CategoryCreate(caller, slug) ==
    /\ IF ~IsAdminOrReadOnly(caller, "POST")
       THEN /\ UNCHANGED categories
            /\ last' = Response("category_create", Denied(caller))
       ELSE IF slug \in categories
       THEN /\ UNCHANGED categories
            /\ last' = Response("category_create", BAD_REQUEST)
       ELSE /\ categories' = categories \cup {slug}
            /\ last' = Response("category_create", CREATED)
    /\ mail' = None
    /\ UNCHANGED <<users, nextUserId, titles, nextTitleId, reviewVars>>

(* on_delete=models.PROTECT of Title.category: the rows that block the     *)
(* deletion of a category.                                                 *)
ProtectedByNothing(slug) == {}
ProtectedBy(slug) == {t \in titles : t.category = Some(slug)}

(* CategoryViewSet.delete_category (DELETE /categories/{slug}). *)
delete_category(caller, slug) ==
    /\ IF ~IsAdminOrReadOnly(caller, "DELETE")
       THEN /\ UNCHANGED categories
            /\ last' = Response("category_delete", Denied(caller))
       ELSE IF slug \notin categories
       THEN /\ UNCHANGED categories
            /\ last' = Response("category_delete", NOT_FOUND)
       ELSE IF ProtectedBy(slug) # {}
       THEN /\ UNCHANGED categories
            /\ last' = Response("category_delete", SERVER_ERROR)
       ELSE /\ categories' = categories \ {slug}
            /\ last' = Response("category_delete", NO_CONTENT)
    /\ mail' = None
    /\ UNCHANGED <<users, nextUserId, titles, nextTitleId, reviewVars>>

(* TitleSerializer.validate_year: TRUE when the year is accepted. *)
validate_year(data) == ~(data >= CurrentYear /\ data < 0)

(* TitleViewSet create (POST /titles), admin only. *)
TitleCreate(caller, category, year) ==
    /\ IF ~IsAdminOrReadOnly(caller, "POST")
       THEN /\ UNCHANGED <<titles, nextTitleId>>
            /\ last' = Response("title_create", Denied(caller))
       ELSE IF category \notin categories \/ ~validate_year(year)
       THEN /\ UNCHANGED <<titles, nextTitleId>>
            /\ last' = Response("title_create", BAD_REQUEST)
       ELSE /\ titles' = titles \cup {[id |-> nextTitleId,
                                        category |-> Some(category),
                                        year |-> year]}
            /\ nextTitleId' = nextTitleId + 1
            /\ last' = Response("title_create", CREATED)
    /\ mail' = None
    /\ UNCHANGED <<users, nextUserId, categories, reviewVars>>

(* The body of a PATCH on a title. *)
TitlePatchData == [category : Opt(Slugs), year : Opt(Years)]

(* TitleViewSet partial_update (PATCH /titles/{id}), admin only. *)
TitleUpdate(caller, id, data) ==
    /\ IF ~IsAdminOrReadOnly(caller, "PATCH")
       THEN /\ UNCHANGED titles
            /\ last' = Response("title_update", Denied(caller))
       ELSE IF ~\E t \in titles : t.id = id
       THEN /\ UNCHANGED titles
            /\ last' = Response("title_update", NOT_FOUND)
       ELSE IF \/ IsSome(data.category) /\ Get(data.category) \notin categories
               \/ IsSome(data.year) /\ ~validate_year(Get(data.year))
       THEN /\ UNCHANGED titles
            /\ last' = Response("title_update", BAD_REQUEST)
       ELSE LET t == TitleById(id)
            IN  /\ titles' = (titles \ {t}) \cup
                        {[id |-> id,
                          category |-> IF IsSome(data.category)
                                       THEN data.category ELSE t.category,
                          year |-> OrElse(data.year, t.year)]}
                /\ last' = Response("title_update", OK)
    /\ mail' = None
    /\ UNCHANGED <<users, nextUserId, categories, nextTitleId, reviewVars>>

(* on_delete=models.CASCADE of Review.title, Review.author, Comment.review *)
(* and Comment.author: the rows deleted with a title, a user, reviews.     *)
ReviewsOfTitle(id) == {r \in reviews : r.title = id}
ReviewsOfAuthor(id) == {r \in reviews : r.author = id}
CommentsOfNothing(rows) == {}
CommentsOfReviews(rows) == {c \in comments : \E r \in rows : c.review = r.id}
CommentsOfAuthor(id) == {c \in comments : c.author = id}

(* TitleViewSet destroy (DELETE /titles/{id}), admin only. *)
TitleDestroy(caller, id) ==
    /\ IF ~IsAdminOrReadOnly(caller, "DELETE")
       THEN /\ UNCHANGED <<titles, reviews, comments>>
            /\ last' = Response("title_delete", Denied(caller))
       ELSE IF ~\E t \in titles : t.id = id
       THEN /\ UNCHANGED <<titles, reviews, comments>>
            /\ last' = Response("title_delete", NOT_FOUND)
       ELSE /\ titles' = titles \ {TitleById(id)}
            /\ reviews' = reviews \ ReviewsOfTitle(id)
            /\ comments' = comments \ CommentsOfReviews(ReviewsOfTitle(id))
            /\ last' = Response("title_delete", NO_CONTENT)
    /\ mail' = None
    /\ UNCHANGED <<users, nextUserId, categories, nextTitleId, nextReviewId,
                   nextCommentId, pending>>

(* UserViewSet destroy (DELETE /users/{username}), admin only. *)
UserDestroy(caller, username) ==
    LET found == {u \in users : u.username = username}
    IN  /\ IF ~IsAdminRole(caller)
           THEN /\ UNCHANGED <<users, reviews, comments>>
                /\ last' = Response("user_delete", Denied(caller))
           ELSE IF found = {}
           THEN /\ UNCHANGED <<users, reviews, comments>>
                /\ last' = Response("user_delete", NOT_FOUND)
           ELSE LET u == CHOOSE x \in found : TRUE
                IN  /\ users' = users \ {u}
                    /\ reviews' = reviews \ ReviewsOfAuthor(u.id)
                    /\ comments' = comments \ (CommentsOfAuthor(u.id) \cup
                                        CommentsOfReviews(ReviewsOfAuthor(u.id)))
                    /\ last' = Response("user_delete", NO_CONTENT)
        /\ mail' = None
        /\ UNCHANGED <<nextUserId, catalogVars, nextReviewId, nextCommentId, pending>>

----------------------------------------------------------------------------
(* The rating of a title. *)

RECURSIVE SumScores(_)
SumScores(rows) ==
    IF rows = {} THEN 0
    ELSE LET r == CHOOSE x \in rows : TRUE
         IN  r.score + SumScores(rows \ {r})

(* Avg("reviews__score"): NULL over no rows, else the exact quotient,      *)
(* kept as the fraction sum / count.                                       *)
Avg(rows) ==
    IF rows = {} THEN None
    ELSE Some([sum |-> SumScores(rows), count |-> Cardinality(rows)])

(* IntegerField.to_representation: int(value), which drops the fraction    *)
(* (the scores are positive, so this is the floor).                        *)
IntegerFieldRoundsUp(value) == (value.sum + value.count - 1) \div value.count
IntegerField(value) == value.sum \div value.count

(* The rating field of TitleOnlyReadSerializer over the annotated row: a   *)
(* null attribute is passed through as null.                               *)
rating(id) ==
    LET avg == Avg(ReviewsOfTitle(id))
    IN  IF IsSome(avg) THEN Some(IntegerField(Get(avg))) ELSE None

(* TitleViewSet retrieve (GET /titles/{id}), open to anyone. *)
TitleRetrieve(caller, id) ==
    /\ IF ~\E t \in titles : t.id = id
       THEN last' = Response("title_retrieve", NOT_FOUND)
       ELSE last' = [op |-> "title_retrieve", status |-> OK, rating |-> rating(id)]
    /\ mail' = None
    /\ UNCHANGED <<users, nextUserId, catalogVars, reviewVars>>

----------------------------------------------------------------------------
(* Reviews. *)

(* The body of a POST is [score, title] and that of a PATCH the same with  *)
(* an optional score; the title is optional in both, and the text is not   *)
(* modelled.                                                               *)

(* ReviewSerializer.validate_score: TRUE when the score is accepted. *)
validate_scoreFromZero(score) == 0 <= score /\ score <= 10
validate_score(score) == 1 <= score /\ score <= 10

(* The title field of ReviewSerializer: a SlugRelatedField over            *)
(* Title.objects.all(), not required.                                      *)
validate_title(field) == IsSome(field) => \E t \in titles : t.id = Get(field)

(* ReviewSerializer.validate: the existence pre-check of a create. *)
validate(method, author, title_id) ==
    method = "POST" => ~\E r \in reviews : r.author = author /\ r.title = title_id

(* Review.Meta.constraints, unique_title_author: whether the table may     *)
(* hold these rows.                                                        *)
unique_title_authorAbsent(rows) == TRUE
unique_title_author(rows) ==
    \A r1, r2 \in rows :
        r1.title = r2.title /\ r1.author = r2.author => r1.id = r2.id

(* serializer.save(author=self.request.user, title=title): the keywords    *)
(* override what the body supplied.                                        *)
CreateSave(validated, author, title_id) ==
    [author |-> author, title |-> title_id, score |-> validated.score]

(* ReviewViewSet create (POST /titles/{title_id}/reviews) up to and with   *)
(* serializer.is_valid(): the status the request is refused with, if it    *)
(* is.  The queryset is not consulted, so an unknown title is not noticed  *)
(* here.                                                                   *)
CreateRefusal(caller, title_id, data) ==
    IF ~(IsAuthenticatedOrReadOnly(caller, "POST")
         /\ AuthorOrStaffRequest(caller, "POST"))
    THEN Some(Denied(caller))
    ELSE IF \/ ~validate_title(data.title)
            \/ ~validate_score(data.score)
            \/ ~validate("POST", caller, title_id)
    THEN Some(BAD_REQUEST)
    ELSE None

(* ReviewViewSet.perform_create: the title is looked up and the row        *)
(* inserted; the store checks the foreign keys and the unique constraint.  *)
perform_create(row) ==
    IF ~\E t \in titles : t.id = row.title
    THEN /\ UNCHANGED <<reviews, nextReviewId>>
         /\ last' = Response("review_create", NOT_FOUND)
    ELSE LET new == [id |-> nextReviewId, title |-> row.title,
                     author |-> row.author, score |-> row.score]
         IN  IF ~IsAuthenticated(row.author)
                \/ ~unique_title_author(reviews \cup {new})
             THEN /\ UNCHANGED <<reviews, nextReviewId>>
                  /\ last' = Response("review_create", SERVER_ERROR)
             ELSE /\ nextReviewId <= MaxReviews
                  /\ reviews' = reviews \cup {new}
                  /\ nextReviewId' = nextReviewId + 1
                  /\ last' = Response("review_create", CREATED)

(* A create served with no other request between its validation and its    *)
(* insert.                                                                 *)
ReviewCreate(caller, title_id, data) ==
    /\ IF IsSome(CreateRefusal(caller, title_id, data))
       THEN /\ UNCHANGED <<reviews, nextReviewId>>
            /\ last' = Response("review_create",
                                Get(CreateRefusal(caller, title_id, data)))
       ELSE perform_create(CreateSave(data, caller, title_id))
    /\ mail' = None
    /\ UNCHANGED <<users, nextUserId, catalogVars, comments, nextCommentId, pending>>

(* A create in two steps, between which other requests are served: first   *)
(* the validation, which leaves an accepted request in flight ...          *)
ReviewCreateValidate(caller, title_id, data) ==
    /\ IF IsSome(CreateRefusal(caller, title_id, data))
       THEN /\ UNCHANGED pending
            /\ last' = Response("review_create",
                                Get(CreateRefusal(caller, title_id, data)))
       ELSE /\ BagCardinality(pending) < MaxPending
            /\ pending' = pending (+) SetToBag({CreateSave(data, caller, title_id)})
            /\ UNCHANGED last
    /\ mail' = None
    /\ UNCHANGED <<users, nextUserId, catalogVars, reviews, nextReviewId,
                   comments, nextCommentId>>

(* ... then the insert of a request in flight. *)
ReviewCreateSave(row) ==
    /\ BagIn(row, pending)
    /\ pending' = pending (-) SetToBag({row})
    /\ perform_create(row)
    /\ mail' = None
    /\ UNCHANGED <<users, nextUserId, catalogVars, comments, nextCommentId>>

(* ReviewViewSet.get_queryset and get_object: the review of the path, when *)
(* the title exists and the review is one of its reviews.                  *)
ReviewOfPath(title_id, review_id) ==
    IF \E t \in titles : t.id = title_id
    THEN {r \in reviews : r.title = title_id /\ r.id = review_id}
    ELSE {}

(* ReviewViewSet partial_update (PATCH /titles/{title_id}/reviews/{id}). *)
ReviewUpdate(caller, title_id, review_id, data) ==
    LET found == ReviewOfPath(title_id, review_id)
    IN  /\ IF ~(IsAuthenticatedOrReadOnly(caller, "PATCH")
                 /\ AuthorOrStaffRequest(caller, "PATCH"))
           THEN /\ UNCHANGED reviews
                /\ last' = Response("review_update", Denied(caller))
           ELSE IF found = {}
           THEN /\ UNCHANGED reviews
                /\ last' = Response("review_update", NOT_FOUND)
           ELSE LET r == CHOOSE x \in found : TRUE
                    new == [id |-> r.id,
                            title |-> OrElse(data.title, r.title),
                            author |-> r.author,
                            score |-> OrElse(data.score, r.score)]
                IN  IF ~AuthorOrStaffObject(caller, "PATCH", r)
                    THEN /\ UNCHANGED reviews
                         /\ last' = Response("review_update", FORBIDDEN)
                    ELSE IF \/ ~validate_title(data.title)
                            \/ IsSome(data.score) /\ ~validate_score(Get(data.score))
                            \/ ~validate("PATCH", caller, title_id)
                    THEN /\ UNCHANGED reviews
                         /\ last' = Response("review_update", BAD_REQUEST)
                    ELSE IF ~unique_title_author((reviews \ {r}) \cup {new})
                    THEN /\ UNCHANGED reviews
                         /\ last' = Response("review_update", SERVER_ERROR)
                    ELSE /\ reviews' = (reviews \ {r}) \cup {new}
                         /\ last' = Response("review_update", OK)
        /\ mail' = None
        /\ UNCHANGED <<users, nextUserId, catalogVars, nextReviewId, comments,
                       nextCommentId, pending>>

(* ReviewViewSet destroy (DELETE /titles/{title_id}/reviews/{id}). *)
ReviewDestroy(caller, title_id, review_id) ==
    LET found == ReviewOfPath(title_id, review_id)
    IN  /\ IF ~(IsAuthenticatedOrReadOnly(caller, "DELETE")
                 /\ AuthorOrStaffRequest(caller, "DELETE"))
           THEN /\ UNCHANGED <<reviews, comments>>
                /\ last' = Response("review_delete", Denied(caller))
           ELSE IF found = {}
           THEN /\ UNCHANGED <<reviews, comments>>
                /\ last' = Response("review_delete", NOT_FOUND)
           ELSE IF ~AuthorOrStaffObject(caller, "DELETE", CHOOSE x \in found : TRUE)
           THEN /\ UNCHANGED <<reviews, comments>>
                /\ last' = Response("review_delete", FORBIDDEN)
           ELSE /\ reviews' = reviews \ found
                /\ comments' = comments \ CommentsOfReviews(found)
                /\ last' = Response("review_delete", NO_CONTENT)
        /\ mail' = None
        /\ UNCHANGED <<users, nextUserId, catalogVars, nextReviewId,
                       nextCommentId, pending>>

----------------------------------------------------------------------------
(* Comments. *)

(* CommentViewSet.get_review: get_object_or_404(Review, id=review_id); the *)
(* title_id of the path is not read.                                       *)
get_review(title_id, review_id) == {r \in reviews : r.id = review_id}

(* CommentViewSet.get_queryset and get_object: the comment of the path. *)
CommentOfPath(title_id, review_id, comment_id) ==
    {c \in comments : c.id = comment_id
                      /\ \E r \in get_review(title_id, review_id) : c.review = r.id}

CommentPermission(caller, method) ==
    IsAuthenticatedOrCreateOnly(caller, method) /\ AuthorOrStaffRequest(caller, method)

(* Every comment handler leaves these alone. *)
CommentFrame ==
    /\ mail' = None
    /\ UNCHANGED <<users, nextUserId, catalogVars, reviews, nextReviewId, pending>>

(* CommentViewSet list (GET .../reviews/{review_id}/comments). *)
CommentList(caller, title_id, review_id) ==
    /\ last' = Response("comment_list",
                        IF ~CommentPermission(caller, "GET") THEN Denied(caller)
                        ELSE IF get_review(title_id, review_id) = {} THEN NOT_FOUND
                        ELSE OK)
    /\ UNCHANGED <<comments, nextCommentId>>
    /\ CommentFrame

(* CommentViewSet create and perform_create (POST .../comments). *)
CommentCreate(caller, title_id, review_id) ==
    /\ IF ~CommentPermission(caller, "POST")
       THEN /\ UNCHANGED <<comments, nextCommentId>>
            /\ last' = Response("comment_create", Denied(caller))
       ELSE IF get_review(title_id, review_id) = {}
       THEN /\ UNCHANGED <<comments, nextCommentId>>
            /\ last' = Response("comment_create", NOT_FOUND)
       ELSE /\ nextCommentId <= MaxComments
            /\ comments' = comments \cup {[id |-> nextCommentId,
                                            review |-> review_id,
                                            author |-> caller]}
            /\ nextCommentId' = nextCommentId + 1
            /\ last' = Response("comment_create", CREATED)
    /\ CommentFrame

(* CommentViewSet retrieve (GET .../comments/{id}). *)
CommentRetrieve(caller, title_id, review_id, comment_id) ==
    /\ last' = Response("comment_retrieve",
                        IF ~CommentPermission(caller, "GET") THEN Denied(caller)
                        ELSE IF CommentOfPath(title_id, review_id, comment_id) = {}
                        THEN NOT_FOUND
                        ELSE OK)
    /\ UNCHANGED <<comments, nextCommentId>>
    /\ CommentFrame

(* The status of a write on the comment of the path. *)
CommentWriteStatus(caller, method, title_id, review_id, comment_id, done) ==
    LET found == CommentOfPath(title_id, review_id, comment_id)
    IN  IF ~CommentPermission(caller, method) THEN Denied(caller)
        ELSE IF found = {} THEN NOT_FOUND
        ELSE IF ~AuthorOrStaffObject(caller, method, CHOOSE c \in found : TRUE)
        THEN FORBIDDEN
        ELSE done

(* CommentViewSet partial_update (PATCH .../comments/{id}): the text, the  *)
(* only writable field, is not modelled.                                   *)
CommentUpdate(caller, title_id, review_id, comment_id) ==
    /\ last' = Response("comment_update",
                        CommentWriteStatus(caller, "PATCH", title_id, review_id,
                                           comment_id, OK))
    /\ UNCHANGED <<comments, nextCommentId>>
    /\ CommentFrame

(* CommentViewSet destroy (DELETE .../comments/{id}). *)
CommentDestroy(caller, title_id, review_id, comment_id) ==
    LET status == CommentWriteStatus(caller, "DELETE", title_id, review_id,
                                     comment_id, NO_CONTENT)
    IN  /\ last' = Response("comment_delete", status)
        /\ comments' = IF status = NO_CONTENT
                       THEN comments \ CommentOfPath(title_id, review_id, comment_id)
                       ELSE comments
        /\ UNCHANGED nextCommentId
        /\ CommentFrame

----------------------------------------------------------------------------
(* Specifications.  Each starts from a store the API can produce and draws *)
(* the requests of one part of the API.                                    *)

Admin == [id |-> 1, username |-> "alice", email |-> "a@x", role |-> "admin"]
Reader == [id |-> 2, username |-> "bob", email |-> "b@x", role |-> "user"]

EmptyCatalog ==
    /\ categories = {}
    /\ titles = {}
    /\ nextTitleId = 1

NoReviews ==
    /\ reviews = {}
    /\ nextReviewId = 1
    /\ comments = {}
    /\ nextCommentId = 1
    /\ pending = EmptyBag

(* Accounts: one administrator exists (created on the command line). *)
InitAccounts ==
    /\ users = {Admin}
    /\ nextUserId = 2
    /\ mail = None
    /\ last = Response("none", OK)
    /\ EmptyCatalog
    /\ NoReviews

NextAccounts ==
    \/ \E n \in Usernames, e \in Emails : SignUp(n, e)
    \/ \E c \in Callers, n \in Usernames, e \in Emails, r \in Roles :
          UserCreate(c, n, e, r)
    \/ \E c \in Callers, n \in Usernames, d \in UserPatchData :
          UserPartialUpdate(c, n, d)
    \/ \E c \in Callers, n \in Usernames : UserDestroy(c, n)
    \/ \E c \in Callers, d \in UserPatchData : MePatch(c, d)

SpecAccounts == InitAccounts /\ [][NextAccounts]_vars

(* The callers of the specifications whose accounts are fixed. *)
Clients == {Anonymous, Admin.id, Reader.id}

(* The catalogue: an administrator and a plain user exist. *)
InitCatalog ==
    /\ users = {Admin, Reader}
    /\ nextUserId = 3
    /\ mail = None
    /\ last = Response("none", OK)
    /\ EmptyCatalog
    /\ NoReviews

TitleIds == 1 .. MaxTitles

NextCatalog ==
    \/ \E c \in Clients, s \in Slugs : CategoryCreate(c, s)
    \/ \E c \in Clients, s \in Slugs : delete_category(c, s)
    \/ \E c \in Clients, s \in Slugs, y \in Years :
          nextTitleId \in TitleIds /\ TitleCreate(c, s, y)
    \/ \E c \in Clients, t \in TitleIds, d \in TitlePatchData : TitleUpdate(c, t, d)
    \/ \E c \in Clients, t \in TitleIds : TitleDestroy(c, t)
    \/ \E c \in Clients, t \in TitleIds : TitleRetrieve(c, t)

SpecCatalog == InitCatalog /\ [][NextCatalog]_vars

(* Reviews and comments: an administrator, a plain user and one category   *)
(* exist; titles are created in that category with the current year.       *)
InitReviews ==
    /\ users = {Admin, Reader}
    /\ nextUserId = 3
    /\ mail = None
    /\ last = Response("none", OK)
    /\ categories = {"film"}
    /\ titles = {}
    /\ nextTitleId = 1
    /\ NoReviews

(* The title and review handlers, over the title ids, the scores, the body *)
(* titles and the update bodies a specification draws.                     *)
TitleRequests(ids) ==
    \/ \E c \in Clients : nextTitleId \in ids /\ TitleCreate(c, "film", CurrentYear)
    \/ \E c \in Clients, t \in ids : TitleDestroy(c, t)

ReviewWrites(ids, patches) ==
    \/ \E c \in Clients, t \in ids, r \in ReviewIds, data \in patches :
          ReviewUpdate(c, t, r, data)
    \/ \E c \in Clients, t \in ids, r \in ReviewIds : ReviewDestroy(c, t, r)

(* PATCH bodies that carry a score, and PATCH bodies that carry a title. *)
ScorePatches(scores) == {[score |-> Some(s), title |-> None] : s \in scores}
TitlePatches(ids) == {[score |-> None, title |-> b] : b \in Opt(ids)}

(* Requests served one after the other. *)
ReviewRequests(ids, scores, bodyTitles, patches) ==
    \/ \E c \in Clients, t \in ids, s \in scores, b \in bodyTitles :
          ReviewCreate(c, t, [score |-> s, title |-> b])
    \/ ReviewWrites(ids, patches)

(* Creates that interleave with each other and with the other requests. *)
RacingReviewRequests(ids, scores, bodyTitles, patches) ==
    \/ \E c \in Clients, t \in ids, s \in scores, b \in bodyTitles :
          ReviewCreateValidate(c, t, [score |-> s, title |-> b])
    \/ \E row \in BagToSet(pending) : ReviewCreateSave(row)
    \/ ReviewWrites(ids, patches)

FewTitleIds == 1 .. FewTitles

(* Concurrent creates, and moves of reviews between titles; one score. *)
NextRace ==
    \/ TitleRequests(FewTitleIds)
    \/ RacingReviewRequests(FewTitleIds, {5}, Opt(FewTitleIds),
                            TitlePatches(FewTitleIds))

SpecRace == InitReviews /\ [][NextRace]_vars

(* The validation of scores, around both ends of the range. *)
EdgeScores == {0, 1, 10, 11}
NextScores ==
    \/ TitleRequests(FewTitleIds)
    \/ ReviewRequests(FewTitleIds, EdgeScores, {None},
                      ScorePatches(EdgeScores))

SpecScores == InitReviews /\ [][NextScores]_vars

(* The rating, over scores whose mean is and is not a whole number. *)
NextRating ==
    \/ TitleRequests(FewTitleIds)
    \/ \E c \in Clients, t \in FewTitleIds : TitleRetrieve(c, t)
    \/ ReviewRequests(FewTitleIds, {4, 5, 8}, {None}, ScorePatches({4, 5, 8}))

SpecRating == InitReviews /\ [][NextRating]_vars

(* Cascading deletes: the plain user writes reviews, which may be moved    *)
(* between titles, and comments; anyone may try to delete them.            *)
NextCascade ==
    \/ TitleRequests(TitleIds)
    \/ \E t \in TitleIds, b \in Opt(TitleIds) :
          ReviewCreate(Reader.id, t, [score |-> 5, title |-> b])
    \/ \E c \in Clients, t \in TitleIds, r \in ReviewIds, b \in Opt(TitleIds) :
          ReviewUpdate(c, t, r, [score |-> None, title |-> b])
    \/ \E c \in Clients, t \in TitleIds, r \in ReviewIds : ReviewDestroy(c, t, r)
    \/ \E t \in TitleIds, r \in ReviewIds : CommentCreate(Reader.id, t, r)
    \/ \E c \in Clients, t \in TitleIds, r \in ReviewIds, k \in CommentIds :
          CommentDestroy(c, t, r, k)

SpecCascade == InitReviews /\ [][NextCascade]_vars

(* Every comment handler, over reviews of two titles. *)
NextComments ==
    \/ TitleRequests(TitleIds)
    \/ ReviewRequests(TitleIds, {5}, {None}, ScorePatches({5}))
    \/ \E c \in Clients, t \in TitleIds, r \in ReviewIds : CommentList(c, t, r)
    \/ \E c \in Clients, t \in TitleIds, r \in ReviewIds : CommentCreate(c, t, r)
    \/ \E c \in Clients, t \in TitleIds, r \in ReviewIds, k \in CommentIds :
          CommentRetrieve(c, t, r, k)
    \/ \E c \in Clients, t \in TitleIds, r \in ReviewIds, k \in CommentIds :
          CommentUpdate(c, t, r, k)
    \/ \E c \in Clients, t \in TitleIds, r \in ReviewIds, k \in CommentIds :
          CommentDestroy(c, t, r, k)

SpecComments == InitReviews /\ [][NextComments]_vars

----------------------------------------------------------------------------
(* Properties. *)

Registered(username, email) ==
    \E u \in users : u.username = username /\ u.email = email

(* C2, one step: the role the caller has after a successful PATCH of       *)
(* /users/me that carries a role.                                          *)
C2_MeRoleStep ==
    \A c \in Callers, d \in UserPatchData :
        (MePatch(c, d) /\ IsAuthenticated(c) /\ IsSome(d.role) /\ last'.status = OK)
        => LET before == UserById(c).role
               after == (CHOOSE u \in users' : u.id = c).role
           IN  IF before = "admin" THEN after = Get(d.role) ELSE after = before

(* C2: PATCH /users/me with a role in the body leaves the role of a caller *)
(* who is not an admin unchanged, and sets the role of a caller who is an  *)
(* admin to the supplied value.                                            *)
C2_MeRole == [][C2_MeRoleStep]_vars

(* C4, part: no two accounts share a username. *)
C4_UniqueUsernames ==
    \A u, v \in users : u.username = v.username => u = v

(* C4, part: a sign-up with a registered (username, email) succeeds, mails *)
(* the address and keeps the number of accounts; a sign-up with a          *)
(* registered username and another email is refused and changes nothing.   *)
C4_SignUpStep ==
    last'.op = "signup" =>
        \A n \in Usernames, e \in Emails :
            SignUp(n, e) =>
                /\ Registered(n, e) =>
                      /\ last'.status = OK
                      /\ mail' = Some(e)
                      /\ Cardinality(users') = Cardinality(users)
                /\ (\E u \in users : u.username = n /\ u.email # e) =>
                      /\ last'.status = BAD_REQUEST
                      /\ mail' = None
                      /\ users' = users

(* C4: sign-up is idempotent by (username, email), a taken username with   *)
(* another email is rejected, and usernames stay unique.                   *)
C4_SignUpIdempotent == []C4_UniqueUsernames /\ [][C4_SignUpStep]_vars

(* C4 witness: a sign-up succeeded and mailed its code though no account   *)
(* was ever added, so it repeated a registered pair.                       *)
C4_Witness ==
    /\ last.op = "signup"
    /\ last.status = OK
    /\ IsSome(mail)
    /\ nextUserId = 2
    /\ Cardinality(users) = 1

(* C5, part: the category of a title is empty or an existing category. *)
C5_CategoryExists ==
    \A t \in titles : IsSome(t.category) => Get(t.category) \in categories

(* C5, part: an admin's delete of an existing category fails and changes   *)
(* nothing when a title refers to it, and removes it otherwise.            *)
C5_DeleteStep ==
    last'.op = "category_delete" =>
        \A c \in Callers, s \in Slugs :
            (is_admin(c) /\ s \in categories /\ delete_category(c, s)) =>
                IF \E t \in titles : t.category = Some(s)
                THEN /\ last'.status \notin Success
                     /\ categories' = categories
                     /\ titles' = titles
                ELSE /\ last'.status = NO_CONTENT
                     /\ categories' = categories \ {s}
                     /\ titles' = titles

(* C5: a category in use cannot be deleted, an unused one can, and every   *)
(* title's category is empty or exists.                                    *)
C5_ProtectedCategory == []C5_CategoryExists /\ [][C5_DeleteStep]_vars

(* C5 witness: the delete of a category in use was refused. *)
C5_Witness ==
    /\ last.op = "category_delete"
    /\ last.status = SERVER_ERROR
    /\ \E t \in titles : IsSome(t.category) /\ Get(t.category) \in categories

(* C8: every stored title has a year that is not in the future (a write    *)
(* with a year after the current one is rejected).                         *)
C8_YearNotFuture == \A t \in titles : t.year <= CurrentYear

(* C1, part: at most one review per (title, author). *)
C1_OnePerPair ==
    \A r1, r2 \in reviews :
        r1.title = r2.title /\ r1.author = r2.author => r1 = r2

HasReview(author, title_id) ==
    \E r \in reviews : r.author = author /\ r.title = title_id

(* C1, part: a create by an author who has a review of the title is        *)
(* refused as invalid and adds nothing; the insert of a create that was    *)
(* validated before the other review appeared is rejected by the store.    *)
C1_CreateStep ==
    last'.op = "review_create" =>
        /\ \A c \in Clients, t \in FewTitleIds, b \in Opt(FewTitleIds) :
              (/\ validate_title(b)
               /\ HasReview(c, t)
               /\ ReviewCreateValidate(c, t, [score |-> 5, title |-> b]))
              => /\ last'.status = BAD_REQUEST
                 /\ reviews' = reviews
                 /\ pending' = pending
        /\ \A row \in BagToSet(pending) :
              (/\ HasReview(row.author, row.title)
               /\ ReviewCreateSave(row))
              => /\ last'.status = SERVER_ERROR
                 /\ reviews' = reviews

(* C1: one review per (title, author) in every state, also when creates    *)
(* for one pair interleave between the pre-check and the insert.           *)
C1_UniqueReview == []C1_OnePerPair /\ [][C1_CreateStep]_vars

(* C1 witness: of two creates in flight for one pair, one was inserted and *)
(* the store rejected the other.                                           *)
C1_Witness ==
    /\ last.op = "review_create"
    /\ last.status = SERVER_ERROR
    /\ reviews # {}

(* The whole quotient sum / count lies in [q, q + 1). *)
IsFloorOfMean(q, rows) ==
    /\ q * Cardinality(rows) <= SumScores(rows)
    /\ SumScores(rows) < (q + 1) * Cardinality(rows)
IsMean(q, rows) == q * Cardinality(rows) = SumScores(rows)

(* C3, one step: the rating of a successful GET of a title is the exact    *)
(* mean of the scores.                                                     *)
C3_MeanStep ==
    (last'.op = "title_retrieve" /\ last'.status = OK) =>
        \A c \in Clients, t \in FewTitleIds :
            TitleRetrieve(c, t) =>
                IF ReviewsOfTitle(t) = {}
                THEN last'.rating = None
                ELSE /\ IsSome(last'.rating)
                     /\ IsMean(Get(last'.rating), ReviewsOfTitle(t))

C3_FloorStep ==
    (last'.op = "title_retrieve" /\ last'.status = OK) =>
        \A c \in Clients, t \in FewTitleIds :
            TitleRetrieve(c, t) =>
                IF ReviewsOfTitle(t) = {}
                THEN last'.rating = None
                ELSE /\ IsSome(last'.rating)
                     /\ IsFloorOfMean(Get(last'.rating), ReviewsOfTitle(t))

C6_NoOrphans ==
    /\ \A r \in reviews : \E t \in titles : t.id = r.title
    /\ \A k \in comments : \E r \in reviews : r.id = k.review

(* C6, part: the delete of a title removes its reviews and their comments  *)
(* and nothing else.                                                       *)
C6_DeleteStep ==
    (last'.op = "title_delete" /\ last'.status = NO_CONTENT) =>
        \A c \in Clients, t \in TitleIds :
            TitleDestroy(c, t) =>
                /\ titles' = {x \in titles : x.id # t}
                /\ reviews' = {r \in reviews : r.title # t}
                /\ comments' = {k \in comments :
                                  \A r \in reviews :
                                     r.id = k.review => r.title # t}

(* C6: deleting a title deletes its reviews and their comments, leaves the *)
(* others, and no review or comment is ever left without its parent.       *)
C6_TitleCascade == []C6_NoOrphans /\ [][C6_DeleteStep]_vars

(* C6 witness: a title was deleted, and of the two reviews and the two     *)
(* comments ever written one of each is left.                              *)
C6_Witness ==
    /\ last.op = "title_delete"
    /\ last.status = NO_CONTENT
    /\ nextReviewId = 3 /\ Cardinality(reviews) = 1
    /\ nextCommentId = 3 /\ Cardinality(comments) = 1
    /\ Cardinality(titles) = 1

(* C7, part: every stored review has a score from 1 to 10. *)
C7_ScoreInRange == \A r \in reviews : 1 <= r.score /\ r.score <= 10

(* C7, part: a create or an update with a score outside 1..10 is refused   *)
(* as invalid and leaves the reviews as they are; with the score 1 or 10   *)
(* it is accepted.                                                         *)
C7_ScoreStep ==
    /\ last'.op = "review_create" =>
          \A c \in Clients, t \in FewTitleIds, s \in EdgeScores :
             (/\ IsAuthenticated(c)
              /\ ReviewCreate(c, t, [score |-> s, title |-> None]))
             => IF s < 1 \/ s > 10
                THEN last'.status = BAD_REQUEST /\ reviews' = reviews
                ELSE (~HasReview(c, t) /\ \E x \in titles : x.id = t)
                     => /\ last'.status = CREATED
                        /\ \E r \in reviews' \ reviews : r.score = s
    /\ last'.op = "review_update" =>
          \A c \in Clients, t \in FewTitleIds, r \in ReviewIds :
             (\E x \in ReviewOfPath(t, r) : x.author = c) =>
                \A s \in EdgeScores :
                   ReviewUpdate(c, t, r, [score |-> Some(s), title |-> None])
                   => IF s < 1 \/ s > 10
                      THEN last'.status = BAD_REQUEST /\ reviews' = reviews
                      ELSE /\ last'.status = OK
                           /\ \E x \in reviews' : x.id = r /\ x.score = s

(* C7: scores outside 1..10 never pass validation, 1 and 10 do, and every  *)
(* stored review has a score from 1 to 10.                                 *)
C7_ScoreValidated == []C7_ScoreInRange /\ [][C7_ScoreStep]_vars

(* C7 witness: an update was refused for its score while a review with the *)
(* score 10 is stored.                                                     *)
C7_Witness ==
    /\ last.op = "review_update"
    /\ last.status = BAD_REQUEST
    /\ \E r \in reviews : r.score = 10

(* Whether the review of the path is a review of the title of the path. *)
PathMatches(title_id, review_id) ==
    \E r \in reviews : r.id = review_id /\ r.title = title_id

CommentStep(c, t, r) ==
    \/ CommentList(c, t, r)
    \/ CommentCreate(c, t, r)
    \/ \E k \in CommentIds : CommentRetrieve(c, t, r, k)
    \/ \E k \in CommentIds : CommentUpdate(c, t, r, k)
    \/ \E k \in CommentIds : CommentDestroy(c, t, r, k)

(* C9, one step: the answer to a comment request of an authenticated       *)
(* caller against the title and the review of its path.                    *)
C9_ScopedStep ==
    \A c \in Clients, t \in TitleIds, r \in ReviewIds :
        (CommentStep(c, t, r) /\ IsAuthenticated(c)) =>
            /\ last'.status \in Success => PathMatches(t, r)
            /\ (\E x \in reviews : x.id = r /\ x.title # t)
                  => last'.status = NOT_FOUND

(* C9: a comment request (list, retrieve, create, update, delete) succeeds *)
(* only when the review of its path is a review of the title of its path,  *)
(* and is answered not found when the review belongs to another title.     *)
C9_CommentsScopedToTitle == [][C9_ScopedStep]_vars

(* C10, one step: the title and the author of the review a successful      *)
(* create or update stores.                                                *)
C10_ContextStep ==
    /\ \A c \in Clients, t \in TitleIds, b \in Opt(TitleIds) :
          (/\ ReviewCreate(c, t, [score |-> 5, title |-> b])
           /\ last'.status = CREATED)
          => \E r \in reviews' \ reviews : r.title = t /\ r.author = c
    /\ \A c \in Clients, t \in TitleIds, r \in ReviewIds, b \in Opt(TitleIds) :
          (/\ ReviewUpdate(c, t, r, [score |-> None, title |-> b])
           /\ last'.status = OK)
          => \E x \in reviews' :
                /\ x.id = r
                /\ x.title = t
                /\ x.author = ReviewById(r).author

(* C10: a created review has the title of the path and the caller as its   *)
(* author whatever the body says, and an update leaves the title and the   *)
(* author of the review as they were even when the body carries a title.   *)
C10_TitleAndAuthorFixed == [][C10_ContextStep]_vars

====
